---- MODULE Spec2Model ----
(***************************************************************************)
(* Model of the authentication engine of the app (AuthContext: AuthProvider *)
(* with loadUser, getStoredUsers, saveStoredUsers, login, signup, logout)   *)
(* over the two AsyncStorage records @auth_user and @auth_users.            *)
(*                                                                          *)
(* Strings are sequences of one-character strings, so that toLowerCase,     *)
(* the e-mail pattern and length checks are computed as the code computes   *)
(* them.  An optional value (User | null, string | null, error?) is the     *)
(* empty sequence when absent and a one-element sequence when present.      *)
(* An async function is a sequence of steps: the synchronous part up to     *)
(* its first await, then one step per await (the storage operation takes    *)
(* effect, or faults, and the continuation runs up to the next await).      *)
(*                                                                          *)
(* Spec     calls made one after the other, beside the startup load, with   *)
(*          storage faults and process restarts, from empty storage.        *)
(* FairSpec Spec with the mount effect and the storage read eventually run. *)
(* SpecExt  Spec from storage that this engine did not write alone.         *)
(* RaceSpec two signup calls that overlap in any way.                       *)
(* TripSpec Spec with a record of the calls made since the mount.           *)
(* FormSpec the Login and Signup forms: typing, blur, submit.               *)
(* UiSpec   calls started only where a screen lets the user start them.     *)
(* RestSpec calls made after the startup load, each result looked at.       *)
(* SignupUiSpec signups submitted from the Signup screen.                   *)
(***************************************************************************)
EXTENDS Integers, Sequences, FiniteSets, TLC

VARIABLES
    storage,      \* AsyncStorage: key -> optional stored text
    user,         \* useState<User | null>
    isLoading,    \* useState(true)
    loadPc,       \* position of the mount effect / loadUser
    calls,        \* in-flight login/signup/logout calls, per call slot
    restarts,     \* number of process restarts so far
    hist,         \* history: facts about the current AuthProvider lifetime
    form          \* the useState values of the Login or Signup screen

vars == <<storage, user, isLoading, loadPc, calls, restarts, hist, form>>

----------------------------------------------------------------------------
(* Bounds *)

MaxAccounts == 2
MaxRestarts == 1

----------------------------------------------------------------------------
(* Storage keys and texts *)

AUTH_STORAGE_KEY == "@auth_user"
USERS_STORAGE_KEY == "@auth_users"

None == <<>>
Some(v) == <<v>>

\* JSON.stringify: the text that denotes v
JSONstringify(v) == [json |-> v]

\* a stored text that is not JSON
Garbage == [garbage |-> TRUE]

\* JSON.parse throws on a text that is not JSON
JSONparseThrows(text) == "json" \notin DOMAIN text

JSONparse(text) == text.json

----------------------------------------------------------------------------
(* Strings *)

UpperChars == <<"A", "B", "C", "X", "Y", "Z">>
LowerChars == <<"a", "b", "c", "x", "y", "z">>

toLowerCase(s) ==
    [i \in 1..Len(s) |->
        IF \E k \in 1..Len(UpperChars) : UpperChars[k] = s[i]
        THEN LowerChars[CHOOSE k \in 1..Len(UpperChars) : UpperChars[k] = s[i]]
        ELSE s[i]]

IsSpace(ch) == ch = " "

\* variant: signup without the check of the email format
emailRegexTest_skipped(s) == TRUE

\* /^[^\s@]+@[^\s@]+\.[^\s@]+$/
emailRegexTest(s) ==
    /\ \A i \in 1..Len(s) : ~IsSpace(s[i])
    /\ Cardinality({i \in 1..Len(s) : s[i] = "@"}) = 1
    /\ \E i \in 2..Len(s) :
          /\ s[i] = "@"
          /\ \E j \in (i + 2)..(Len(s) - 1) : s[j] = "."

Digit(d) == <<"0", "1", "2", "3", "4", "5", "6", "7", "8", "9">>[d + 1]

RECURSIVE toString(_)
toString(n) == IF n < 10 THEN <<Digit(n)>>
               ELSE toString(n \div 10) \o <<Digit(n % 10)>>

----------------------------------------------------------------------------
(* Inputs *)

Names == { <<"J", "o">>, <<>> }

Emails == { <<"a", "@", "b", ".", "c">>,
            <<"A", "@", "B", ".", "c">>,
            <<"x", "@", "y", ".", "z">>,
            <<"a", "b">>,
            <<>> }

Passwords == { <<"s", "e", "c", "r", "e", "t">>,
               <<"1", "2", "3", "4", "5">>,
               <<>> }

Slots == {1, 2}

\* the readings Date.now() may return to a signup
ClockReadings == {0, 1}

----------------------------------------------------------------------------
(* AuthResult and the outcome of a call's promise *)

Ok == [success |-> TRUE, error |-> None]
Fail(msg) == [success |-> FALSE, error |-> Some(msg)]

Resolved(r) == [settled |-> "resolved", result |-> r]
Rejected == [settled |-> "rejected", result |-> Fail("thrown")]
Pending == [settled |-> "pending", result |-> Ok]

IdleCall == [op |-> "none", pc |-> "idle",
             name |-> <<>>, email |-> <<>>, password |-> <<>>,
             users |-> <<>>, newUser |-> None, loggedInUser |-> None,
             outcome |-> Pending, faults |-> {}, overlap |-> FALSE]

InFlight(c) == c.pc \notin {"idle", "done"}

----------------------------------------------------------------------------
(* Accounts and session users *)

StoredUser(name, email, password, id) ==
    [name |-> name, email |-> email, password |-> password, id |-> id]

\* variant: the whole account object is used as the session user
LoggedInUser_withPassword(u) == u

\* "Create user object without password"
LoggedInUser(u) == [name |-> u.name, email |-> u.email, id |-> u.id]

\* Array.prototype.find over the results of the predicate, element by
\* element: the index of the first element that passes, 0 when none does
FindIndex(passes) ==
    IF \E i \in 1..Len(passes) : passes[i]
    THEN CHOOSE i \in 1..Len(passes) :
            /\ passes[i]
            /\ \A j \in 1..(i - 1) : ~passes[j]
    ELSE 0

\* getStoredUsers: the parsed collection; [] when absent, on a read fault
\* and on a parse fault
getStoredUsers(item, fault) ==
    IF fault THEN <<>>
    ELSE IF item = None THEN <<>>
    ELSE IF JSONparseThrows(item[1]) THEN <<>>
    ELSE JSONparse(item[1])

\* variant: the new account is added to the collection as it is in storage at
\* the time of the write
saveStoredUsers_merge(users, fault) ==
    IF fault THEN storage[USERS_STORAGE_KEY]
    ELSE Some(JSONstringify(Append(
            getStoredUsers(storage[USERS_STORAGE_KEY], FALSE), users[Len(users)])))

\* saveStoredUsers: the collection record after the write; a write fault is
\* caught and logged inside saveStoredUsers
saveStoredUsers(users, fault) ==
    IF fault THEN storage[USERS_STORAGE_KEY]
    ELSE Some(JSONstringify(users))

\* the find callback without the comparison of the passwords
loginMatches_emailOnly(u, email, password) ==
    toLowerCase(u.email) = toLowerCase(email)

\* the find callback without the toLowerCase() calls
loginMatches_caseSensitive(u, email, password) ==
    u.email = email /\ u.password = password

\* login's users.find predicate
loginMatches(u, email, password) ==
    /\ toLowerCase(u.email) = toLowerCase(email)
    /\ u.password = password

\* variant: the duplicate check compares the emails as written
signupMatches_caseSensitive(u, email) == u.email = email

\* signup's users.find predicate
signupMatches(u, email) == toLowerCase(u.email) = toLowerCase(email)

\* variant: logout has no catch block
logoutCatch_rethrow == Rejected

\* variant: the catch block of signup returns no message
signupCatch_noMessage == Resolved([success |-> FALSE, error |-> None])

loginCatch == Resolved(Fail("An unexpected error occurred during login"))
signupCatch == Resolved(Fail("An unexpected error occurred during signup"))
logoutCatch == Resolved(Fail("An unexpected error occurred during logout"))

\* the accounts of the persisted collection, as getStoredUsers would read them
Accounts == getStoredUsers(storage[USERS_STORAGE_KEY], FALSE)

----------------------------------------------------------------------------
(* AuthProvider: mount effect and loadUser *)

\* variant: setIsLoading(false) at the end of the try block, not in finally
loadUserFinally_tryOnly(threw) == threw

\* finally { setIsLoading(false) }
loadUserFinally(threw) == FALSE

\* variant: the stored user is read and not put into the state
loadUserSetUser_dropped(storedUser, threw) == user

\* if (storedUser) setUser(JSON.parse(storedUser)), inside the try
loadUserSetUser(storedUser, threw) ==
    IF ~threw /\ storedUser # None
    THEN Some(JSONparse(storedUser[1]))
    ELSE user

LoadUserEffect ==
    /\ loadPc = "mount"
    /\ loadPc' = "getItem"
    /\ hist' = [hist EXCEPT !.loads = @ + 1]
    /\ UNCHANGED <<form, storage, user, isLoading, calls, restarts>>

LoadUserResolve ==
    /\ loadPc = "getItem"
    /\ \E fault \in BOOLEAN :
          LET storedUser == storage[AUTH_STORAGE_KEY]
              threw == fault \/ (storedUser # None /\ JSONparseThrows(storedUser[1]))
          IN  /\ user' = loadUserSetUser(storedUser, threw)
              /\ isLoading' = loadUserFinally(threw)
              /\ hist' = [hist EXCEPT !.loadOutcome =
                              IF threw THEN "fault"
                              ELSE IF storedUser # None THEN "user" ELSE "absent"]
    /\ loadPc' = "done"
    /\ UNCHANGED <<form, storage, calls, restarts>>

----------------------------------------------------------------------------
(* Calls *)

\* a call starts in the lowest free slot
CanStart(s) ==
    /\ calls[s].pc = "idle"
    /\ \A t \in Slots : t < s => calls[t].pc # "idle"

Called == [hist EXCEPT !.called = TRUE]

\* the promise settles; the locals of the call are gone
Finish(c, outcome) ==
    [c EXCEPT !.pc = "done", !.outcome = outcome, !.name = <<>>,
              !.password = <<>>, !.users = <<>>, !.loggedInUser = None]

(* login *)

LoginCall(s, email, password) ==
    /\ CanStart(s)
    /\ LET c == [IdleCall EXCEPT !.op = "login", !.email = email,
                                 !.password = password]
       IN  calls' = [calls EXCEPT ![s] =
              IF email = <<>> \/ password = <<>>
              THEN Finish(c, Resolved(Fail("Email and password are required")))
              ELSE [c EXCEPT !.pc = "getStoredUsers"]]
    /\ hist' = Called
    /\ UNCHANGED <<form, storage, user, isLoading, loadPc, restarts>>

\* variant: getStoredUsers without its try/catch, the fault reaches the
\* catch block of login
LoginGotUsers_propagates(s) ==
    /\ calls[s].op = "login"
    /\ calls[s].pc = "getStoredUsers"
    /\ \E fault \in BOOLEAN :
          LET c == [calls[s] EXCEPT !.faults = IF fault THEN @ \cup {"read"} ELSE @]
              users == getStoredUsers(storage[USERS_STORAGE_KEY], fault)
              i == FindIndex([k \in 1..Len(users) |->
                                loginMatches(users[k], c.email, c.password)])
          IN  IF fault
              THEN /\ calls' = [calls EXCEPT ![s] = Finish(c, loginCatch)]
                   /\ user' = user
              ELSE IF i = 0
              THEN /\ calls' = [calls EXCEPT ![s] =
                          Finish(c, Resolved(Fail("Invalid email or password")))]
                   /\ user' = user
              ELSE /\ calls' = [calls EXCEPT ![s] =
                          [c EXCEPT !.pc = "setItem", !.users = users,
                                    !.loggedInUser = Some(LoggedInUser(users[i]))]]
                   /\ user' = Some(LoggedInUser(users[i]))
    /\ UNCHANGED <<form, storage, isLoading, loadPc, restarts, hist>>

\* variant: a login with an email that no account has is told so
LoginGotUsers_tellsUnknown(s) ==
    /\ calls[s].op = "login"
    /\ calls[s].pc = "getStoredUsers"
    /\ \E fault \in BOOLEAN :
          LET c == [calls[s] EXCEPT !.faults = IF fault THEN @ \cup {"read"} ELSE @]
              users == getStoredUsers(storage[USERS_STORAGE_KEY], fault)
              i == FindIndex([k \in 1..Len(users) |->
                                loginMatches(users[k], c.email, c.password)])
              known == \E k \in 1..Len(users) :
                           toLowerCase(users[k].email) = toLowerCase(c.email)
          IN  IF i = 0
              THEN /\ calls' = [calls EXCEPT ![s] =
                          Finish(c, Resolved(Fail(
                              IF known THEN "Invalid email or password"
                              ELSE "No account with this email")))]
                   /\ user' = user
              ELSE /\ calls' = [calls EXCEPT ![s] =
                          [c EXCEPT !.pc = "setItem", !.users = users,
                                    !.loggedInUser = Some(LoggedInUser(users[i]))]]
                   /\ user' = Some(LoggedInUser(users[i]))
    /\ UNCHANGED <<form, storage, isLoading, loadPc, restarts, hist>>

LoginGotUsers(s) ==
    /\ calls[s].op = "login"
    /\ calls[s].pc = "getStoredUsers"
    /\ \E fault \in BOOLEAN :
          LET c == [calls[s] EXCEPT !.faults = IF fault THEN @ \cup {"read"} ELSE @]
              users == getStoredUsers(storage[USERS_STORAGE_KEY], fault)
              i == FindIndex([k \in 1..Len(users) |->
                                loginMatches(users[k], c.email, c.password)])
          IN  IF i = 0
              THEN /\ calls' = [calls EXCEPT ![s] =
                          Finish(c, Resolved(Fail("Invalid email or password")))]
                   /\ user' = user
              ELSE /\ calls' = [calls EXCEPT ![s] =
                          [c EXCEPT !.pc = "setItem", !.users = users,
                                    !.loggedInUser = Some(LoggedInUser(users[i]))]]
                   /\ user' = Some(LoggedInUser(users[i]))
    /\ UNCHANGED <<form, storage, isLoading, loadPc, restarts, hist>>

LoginSetItem(s) ==
    /\ calls[s].op = "login"
    /\ calls[s].pc = "setItem"
    /\ \E fault \in BOOLEAN :
          IF fault
          THEN /\ calls' = [calls EXCEPT ![s] =
                      Finish([calls[s] EXCEPT !.faults = @ \cup {"save"}], loginCatch)]
               /\ storage' = storage
          ELSE /\ calls' = [calls EXCEPT ![s] = Finish(calls[s], Resolved(Ok))]
               /\ storage' = [storage EXCEPT ![AUTH_STORAGE_KEY] =
                      Some(JSONstringify(calls[s].loggedInUser[1]))]
    /\ UNCHANGED <<form, user, isLoading, loadPc, restarts, hist>>

(* signup *)

SignupCall(s, name, email, password) ==
    /\ CanStart(s)
    /\ Len(Accounts) + Cardinality({t \in Slots :
            calls[t].op = "signup" /\ InFlight(calls[t])}) < MaxAccounts
    /\ LET c == [IdleCall EXCEPT !.op = "signup", !.name = name,
                                 !.email = email, !.password = password]
       IN  calls' = [calls EXCEPT ![s] =
              IF name = <<>> \/ email = <<>> \/ password = <<>>
              THEN Finish(c, Resolved(Fail("Name, email, and password are required")))
              ELSE IF ~emailRegexTest(email)
              THEN Finish(c, Resolved(Fail("Invalid email format")))
              ELSE IF Len(password) < 6
              THEN Finish(c, Resolved(Fail("Password must be at least 6 characters")))
              ELSE [c EXCEPT !.pc = "getStoredUsers"]]
    /\ hist' = Called
    /\ UNCHANGED <<form, storage, user, isLoading, loadPc, restarts>>

\* another signup for the same email (ignoring case) has passed the duplicate
\* check and has not written the collection yet
Overlaps(s) ==
    \E t \in Slots \ {s} :
        /\ calls[t].op = "signup"
        /\ calls[t].pc = "saveStoredUsers"
        /\ toLowerCase(calls[t].email) = toLowerCase(calls[s].email)

\* variant: the new account is pushed and saved before the duplicate check
SignupGotUsers_saveFirst(s) ==
    /\ calls[s].op = "signup"
    /\ calls[s].pc = "getStoredUsers"
    /\ \E fault \in BOOLEAN, now \in ClockReadings :
          LET c == [calls[s] EXCEPT !.faults = IF fault THEN @ \cup {"read"} ELSE @]
              users == getStoredUsers(storage[USERS_STORAGE_KEY], fault)
              existingUser == FindIndex([k \in 1..Len(users) |->
                                signupMatches(users[k], c.email)])
              newUser == StoredUser(c.name, c.email, c.password, toString(now))
          IN  /\ storage' = [storage EXCEPT ![USERS_STORAGE_KEY] =
                     saveStoredUsers(Append(users, newUser), FALSE)]
              /\ calls' = [calls EXCEPT ![s] =
                     IF existingUser # 0
                     THEN Finish(c, Resolved(Fail("User with this email already exists")))
                     ELSE [c EXCEPT !.pc = "saveStoredUsers",
                                    !.users = Append(users, newUser),
                                    !.newUser = Some(newUser),
                                    !.overlap = Overlaps(s)]]
    /\ UNCHANGED <<form, user, isLoading, loadPc, restarts, hist>>

SignupGotUsers(s) ==
    /\ calls[s].op = "signup"
    /\ calls[s].pc = "getStoredUsers"
    /\ \E fault \in BOOLEAN, now \in ClockReadings :
          LET c == [calls[s] EXCEPT !.faults = IF fault THEN @ \cup {"read"} ELSE @]
              users == getStoredUsers(storage[USERS_STORAGE_KEY], fault)
              existingUser == FindIndex([k \in 1..Len(users) |->
                                signupMatches(users[k], c.email)])
              newUser == StoredUser(c.name, c.email, c.password, toString(now))
          IN  calls' = [calls EXCEPT ![s] =
                 IF existingUser # 0
                 THEN Finish(c, Resolved(Fail("User with this email already exists")))
                 ELSE [c EXCEPT !.pc = "saveStoredUsers",
                                !.users = Append(users, newUser),
                                !.newUser = Some(newUser),
                                !.overlap = Overlaps(s)]]
    /\ UNCHANGED <<form, storage, user, isLoading, loadPc, restarts, hist>>

SignupSaved(s) ==
    /\ calls[s].op = "signup"
    /\ calls[s].pc = "saveStoredUsers"
    /\ \E fault \in BOOLEAN :
          LET c == [calls[s] EXCEPT !.faults = IF fault THEN @ \cup {"insert"} ELSE @]
              loggedInUser == LoggedInUser(c.newUser[1])
          IN  /\ storage' = [storage EXCEPT ![USERS_STORAGE_KEY] =
                     saveStoredUsers(c.users, fault)]
              /\ user' = Some(loggedInUser)
              /\ calls' = [calls EXCEPT ![s] =
                     [c EXCEPT !.pc = "setItem", !.loggedInUser = Some(loggedInUser)]]
    /\ UNCHANGED <<form, isLoading, loadPc, restarts, hist>>

SignupSetItem(s) ==
    /\ calls[s].op = "signup"
    /\ calls[s].pc = "setItem"
    /\ \E fault \in BOOLEAN :
          IF fault
          THEN /\ calls' = [calls EXCEPT ![s] =
                      Finish([calls[s] EXCEPT !.faults = @ \cup {"save"}], signupCatch)]
               /\ storage' = storage
          ELSE /\ calls' = [calls EXCEPT ![s] = Finish(calls[s], Resolved(Ok))]
               /\ storage' = [storage EXCEPT ![AUTH_STORAGE_KEY] =
                      Some(JSONstringify(calls[s].loggedInUser[1]))]
    /\ UNCHANGED <<form, user, isLoading, loadPc, restarts, hist>>

(* logout *)

\* variant: logout without the setUser(null)
LogoutCall_keepsUser(s) ==
    /\ CanStart(s)
    /\ calls' = [calls EXCEPT ![s] =
          [IdleCall EXCEPT !.op = "logout", !.pc = "removeItem"]]
    /\ hist' = Called
    /\ UNCHANGED <<form, storage, user, isLoading, loadPc, restarts>>

LogoutCall(s) ==
    /\ CanStart(s)
    /\ calls' = [calls EXCEPT ![s] =
          [IdleCall EXCEPT !.op = "logout", !.pc = "removeItem"]]
    /\ user' = None
    /\ hist' = Called
    /\ UNCHANGED <<form, storage, isLoading, loadPc, restarts>>

\* variant: logout removes the collection key instead of the session key
LogoutRemoved_wrongKey(s) ==
    /\ calls[s].op = "logout"
    /\ calls[s].pc = "removeItem"
    /\ \E fault \in BOOLEAN :
          IF fault
          THEN /\ calls' = [calls EXCEPT ![s] =
                      Finish([calls[s] EXCEPT !.faults = @ \cup {"clear"}], logoutCatch)]
               /\ storage' = storage
          ELSE /\ calls' = [calls EXCEPT ![s] = Finish(calls[s], Resolved(Ok))]
               /\ storage' = [storage EXCEPT ![USERS_STORAGE_KEY] = None]
    /\ UNCHANGED <<form, user, isLoading, loadPc, restarts, hist>>

LogoutRemoved(s) ==
    /\ calls[s].op = "logout"
    /\ calls[s].pc = "removeItem"
    /\ \E fault \in BOOLEAN :
          IF fault
          THEN /\ calls' = [calls EXCEPT ![s] =
                      Finish([calls[s] EXCEPT !.faults = @ \cup {"clear"}], logoutCatch)]
               /\ storage' = storage
          ELSE /\ calls' = [calls EXCEPT ![s] = Finish(calls[s], Resolved(Ok))]
               /\ storage' = [storage EXCEPT ![AUTH_STORAGE_KEY] = None]
    /\ UNCHANGED <<form, user, isLoading, loadPc, restarts, hist>>

\* the caller's await receives the settled promise
Settle(s) ==
    /\ calls[s].pc = "done"
    /\ calls' = [calls EXCEPT ![s] = IdleCall]
    /\ UNCHANGED <<form, storage, user, isLoading, loadPc, restarts, hist>>

----------------------------------------------------------------------------
(* Environment *)

Mounted == [called |-> FALSE, loads |-> 0, loadOutcome |-> "none", script |-> <<>>]

\* the process is killed and started again: a new AuthProvider over the same
\* storage
Restart ==
    /\ restarts < MaxRestarts
    /\ restarts' = restarts + 1
    /\ user' = None
    /\ isLoading' = TRUE
    /\ loadPc' = "mount"
    /\ calls' = [s \in Slots |-> IdleCall]
    /\ hist' = Mounted
    /\ UNCHANGED <<form, storage>>

----------------------------------------------------------------------------
(* Navigation: the screens of MainStack *)

MainStackNames ==
    {"Login", "Signup", "HomeTabs", "Profile", "About", "Settings", "NotFound"}

\* the `if` callback of a screen, TRUE for a screen declared without one;
\* u is what useAuth().user returns
ScreenIf(screen, u) ==
    CASE screen \in {"Login", "Signup"} -> (u = None) \/ FALSE
      [] screen = "HomeTabs" -> (u # None) \/ FALSE
      [] OTHER -> TRUE

\* the screens the navigator holds, and can navigate to, for the user u
MainStackScreens(u) == { screen \in MainStackNames : ScreenIf(screen, u) }

\* what the Navigation component renders for the provider's isLoading and
\* user: it renders the navigator, whatever isLoading is
Navigation(loading, u) ==
    [loadingScreen |-> FALSE, screens |-> MainStackScreens(u)]

----------------------------------------------------------------------------
(* Forms: the Login and Signup screens *)

FormScreens == {"Login", "Signup"}

\* the text fields of a screen, in the order validateAllFields visits them
Fields(screen) ==
    IF screen = "Login" THEN <<"email", "password">>
    ELSE <<"name", "email", "password", "confirmPassword">>

FieldSet(screen) == { Fields(screen)[i] : i \in 1..Len(Fields(screen)) }

\* String.prototype.trim
RECURSIVE trim(_)
trim(s) ==
    IF s = <<>> THEN s
    ELSE IF IsSpace(Head(s)) THEN trim(Tail(s))
    ELSE IF IsSpace(s[Len(s)]) THEN trim(SubSeq(s, 1, Len(s) - 1))
    ELSE s

\* the form of a screen that has just been mounted; call holds the arguments
\* of the engine call the screen is awaiting
MountedForm(screen) ==
    [screen |-> screen,
     values |-> [f \in FieldSet(screen) |-> <<>>],
     errors |-> [f \in FieldSet(screen) |-> None],
     touched |-> [f \in FieldSet(screen) |-> FALSE],
     isLoading |-> FALSE,
     call |-> None]

\* variant: the screen requires a password and does not look at its length
validateField_anyPassword(screen, field, value, password) ==
    CASE field = "name" ->
            IF trim(value) = <<>> THEN Some("Name is required")
            ELSE IF Len(trim(value)) < 2
            THEN Some("Name must be at least 2 characters")
            ELSE None
      [] field = "email" ->
            IF trim(value) = <<>> THEN Some("Email is required")
            ELSE IF ~emailRegexTest(value)
            THEN Some("Email address is incomplete")
            ELSE None
      [] field = "password" ->
            IF value = <<>> THEN Some("Password is required")
            ELSE None
      [] field = "confirmPassword" /\ screen = "Signup" ->
            IF value = <<>> THEN Some("Please confirm your password")
            ELSE IF value # password THEN Some("Passwords do not match")
            ELSE None
      [] OTHER -> None

\* variant: the password rule compares with <= instead of <
validateField_lengthAbove6(screen, field, value, password) ==
    CASE field = "name" ->
            IF trim(value) = <<>> THEN Some("Name is required")
            ELSE IF Len(trim(value)) < 2
            THEN Some("Name must be at least 2 characters")
            ELSE None
      [] field = "email" ->
            IF trim(value) = <<>> THEN Some("Email is required")
            ELSE IF ~emailRegexTest(value)
            THEN Some("Email address is incomplete")
            ELSE None
      [] field = "password" ->
            IF value = <<>> THEN Some("Password is required")
            ELSE IF Len(value) <= 6
            THEN Some("Password must be at least 6 characters")
            ELSE None
      [] field = "confirmPassword" /\ screen = "Signup" ->
            IF value = <<>> THEN Some("Please confirm your password")
            ELSE IF value # password THEN Some("Passwords do not match")
            ELSE None
      [] OTHER -> None

\* validateField of the two screens; password is formState.password
validateField(screen, field, value, password) ==
    CASE field = "name" ->
            IF trim(value) = <<>> THEN Some("Name is required")
            ELSE IF Len(trim(value)) < 2
            THEN Some("Name must be at least 2 characters")
            ELSE None
      [] field = "email" ->
            IF trim(value) = <<>> THEN Some("Email is required")
            ELSE IF ~emailRegexTest(value)
            THEN Some("Email address is incomplete")
            ELSE None
      [] field = "password" ->
            IF value = <<>> THEN Some("Password is required")
            ELSE IF Len(value) < 6
            THEN Some("Password must be at least 6 characters")
            ELSE None
      [] field = "confirmPassword" /\ screen = "Signup" ->
            IF value = <<>> THEN Some("Please confirm your password")
            ELSE IF value # password THEN Some("Passwords do not match")
            ELSE None
      [] OTHER -> None

\* the texts typed or pasted into the fields
NameValues == { <<>>, <<" ">>, <<"J">>, <<"J", "o">> }
EmailValues == { <<>>, <<"a", "b">>, <<"a", "@", "b", ".", "c">> }
PasswordValues ==
    { <<>>, <<"1">>, <<"1", "2", "3", "4", "5">>,
      <<"s", "e", "c", "r", "e", "t">>,
      <<"s", "e", "c", "r", "e", "t", "1">> }

Typed(field) ==
    CASE field = "name" -> NameValues
      [] field = "email" -> EmailValues
      [] OTHER -> PasswordValues

PasswordTooShort == "Password must be at least 6 characters"
PasswordsDoNotMatch == "Passwords do not match"

\* updateFormField for a text field: the value is stored and an error of the
\* field is cleared
updateFormField(f, field, value) ==
    [f EXCEPT !.values[field] = value,
              !.errors[field] = IF f.errors[field] # None THEN None ELSE @]

\* variant: onChangeText of the password field without the real-time check
passwordChanged_noRealTime(f, g, value) == g

\* the rest of onChangeText of the password field; f is the form as rendered
passwordChanged(f, g, value) ==
    LET h == [g EXCEPT !.errors["password"] =
                 IF Len(value) > 0 /\ Len(value) < 6
                 THEN Some(PasswordTooShort)
                 ELSE IF f.errors["password"] # None THEN None ELSE @]
    IN  IF /\ f.screen = "Signup"
           /\ f.touched["confirmPassword"]
           /\ f.values["confirmPassword"] # <<>>
        THEN [h EXCEPT !.errors["confirmPassword"] =
                 IF value # f.values["confirmPassword"]
                 THEN Some(PasswordsDoNotMatch) ELSE None]
        ELSE h

\* the rest of onChangeText of the confirmPassword field
confirmPasswordChanged(f, g, value) ==
    [g EXCEPT !.errors["confirmPassword"] =
        IF value # <<>> /\ value # f.values["password"]
        THEN Some(PasswordsDoNotMatch)
        ELSE IF f.errors["confirmPassword"] # None THEN None ELSE @]

\* onChangeText of a field: the user types or pastes value
ChangeText(field, value) ==
    /\ ~form.isLoading
    /\ field \in FieldSet(form.screen)
    /\ value # form.values[field]
    /\ LET g == updateFormField(form, field, value)
       IN  form' = CASE field = "password" -> passwordChanged(form, g, value)
                     [] field = "confirmPassword" ->
                           confirmPasswordChanged(form, g, value)
                     [] OTHER -> g
    /\ UNCHANGED <<storage, user, isLoading, loadPc, calls, restarts, hist>>

\* handleBlur: the field is touched, and its error, if any, is stored
handleBlur(field) ==
    /\ field \in FieldSet(form.screen)
    /\ LET error == validateField(form.screen, field, form.values[field],
                                  form.values["password"])
       IN  form' = [form EXCEPT !.touched[field] = TRUE,
                                !.errors[field] =
                                    IF error # None THEN error ELSE @]
    /\ UNCHANGED <<storage, user, isLoading, loadPc, calls, restarts, hist>>

\* variant: validateAllFields stops at the first field with an error
validateAllFields_firstOnly(f) ==
    LET error(i) == validateField(f.screen, Fields(f.screen)[i],
                                  f.values[Fields(f.screen)[i]],
                                  f.values["password"])
    IN  [field \in FieldSet(f.screen) |->
            LET i == CHOOSE k \in 1..Len(Fields(f.screen)) :
                        Fields(f.screen)[k] = field
            IN  IF \E k \in 1..(i - 1) : error(k) # None THEN None
                ELSE error(i)]

\* newErrors of validateAllFields: a field without error has no entry
validateAllFields(f) ==
    [field \in FieldSet(f.screen) |->
        validateField(f.screen, field, f.values[field], f.values["password"])]

\* the arguments handleLogin and handleSignup pass to the engine
CallArguments(f) ==
    IF f.screen = "Login"
    THEN [email |-> trim(f.values["email"]), password |-> f.values["password"]]
    ELSE [name |-> trim(f.values["name"]), email |-> trim(f.values["email"]),
          password |-> f.values["password"]]

\* handleLogin / handleSignup up to the await: the button is rendered only
\* while isLoading is false
Submit ==
    /\ ~form.isLoading
    /\ LET newErrors == validateAllFields(form)
           isValid == \A field \in FieldSet(form.screen) : newErrors[field] = None
           g == [form EXCEPT !.errors = newErrors,
                             !.touched = [field \in FieldSet(form.screen) |-> TRUE]]
       IN  form' = IF isValid
                   THEN [g EXCEPT !.isLoading = TRUE,
                                  !.call = Some(CallArguments(form))]
                   ELSE g
    /\ UNCHANGED <<storage, user, isLoading, loadPc, calls, restarts, hist>>

\* the await of the engine call resumes: updateFormField("isLoading", false)
Returned ==
    /\ form.isLoading
    /\ form' = [form EXCEPT !.isLoading = FALSE, !.call = None]
    /\ UNCHANGED <<storage, user, isLoading, loadPc, calls, restarts, hist>>

\* getPasswordMatchStatus of the Signup screen
passwordMatchStatus(f) ==
    IF f.screen # "Signup" \/ f.values["confirmPassword"] = <<>> THEN "null"
    ELSE IF f.values["password"] = f.values["confirmPassword"] THEN "match"
    ELSE "mismatch"

\* variant: the error text is rendered for every stored error
showsErrorText_always(f, field) == f.errors[field] # None

\* the render: {touched.field && errors.field && <Text style=errorText>}
showsErrorText(f, field) == f.touched[field] /\ f.errors[field] # None

\* the render: touched.field && errors.field && styles.inputError
showsInputError(f, field) ==
    /\ f.touched[field]
    /\ f.errors[field] # None
    /\ field = "confirmPassword" => passwordMatchStatus(f) = "null"

----------------------------------------------------------------------------
(* Specifications *)

\* a new process over the storage store, showing the form of screen
InitOn(store, screen) ==
    /\ storage = store
    /\ user = None
    /\ isLoading = TRUE
    /\ loadPc = "mount"
    /\ calls = [s \in Slots |-> IdleCall]
    /\ restarts = 0
    /\ hist = Mounted
    /\ form = MountedForm(screen)

\* with no user the navigator shows Login, its first screen
InitWith(store) == InitOn(store, "Login")

EmptyStorage == [k \in {AUTH_STORAGE_KEY, USERS_STORAGE_KEY} |-> None]

\* a fresh installation
Init == InitWith(EmptyStorage)

\* an await of the provider resumes, or the caller receives a result
Step ==
    \/ LoadUserEffect
    \/ LoadUserResolve
    \/ \E s \in Slots : LoginGotUsers(s)
    \/ \E s \in Slots : LoginSetItem(s)
    \/ \E s \in Slots : SignupGotUsers(s)
    \/ \E s \in Slots : SignupSaved(s)
    \/ \E s \in Slots : SignupSetItem(s)
    \/ \E s \in Slots : LogoutRemoved(s)
    \/ \E s \in Slots : Settle(s)

\* no call has been started and not yet returned to its caller
Quiet == \A s \in Slots : calls[s].pc = "idle"

\* calls are made one after the other (the startup load runs beside them)
Next ==
    \/ Quiet /\ \E s \in Slots, email \in Emails, password \in Passwords :
                  LoginCall(s, email, password)
    \/ Quiet /\ \E s \in Slots, name \in Names, email \in Emails,
                    password \in Passwords :
                  SignupCall(s, name, email, password)
    \/ Quiet /\ \E s \in Slots : LogoutCall(s)
    \/ Step
    \/ Restart

Spec == Init /\ [][Next]_vars

\* the mount effect and the storage read are eventually run
FairSpec == Spec /\ WF_vars(LoadUserEffect) /\ WF_vars(LoadUserResolve)

\* a device whose storage was not written by this engine alone: the session
\* slot may hold a text that is not JSON or a JSON value that is not a
\* complete user, the account collection a text that is not JSON
StoredSessions ==
    { None,
      Some(Garbage),
      Some(JSONstringify([name |-> <<"J", "o">>])),
      Some(JSONstringify([name |-> <<"J", "o">>,
                          email |-> <<"a", "@", "b", ".", "c">>,
                          id |-> toString(0)])) }

StoredCollections == { None, Some(Garbage) }

InitExt ==
    \E session \in StoredSessions, collection \in StoredCollections :
        InitWith([k \in {AUTH_STORAGE_KEY, USERS_STORAGE_KEY} |->
                    IF k = AUTH_STORAGE_KEY THEN session ELSE collection])

SpecExt == InitExt /\ [][Next]_vars

\* two signup calls that may overlap in any way, one per call slot
RaceNext ==
    \/ \E s \in Slots, name \in Names, email \in Emails, password \in Passwords :
          SignupCall(s, name, email, password)
    \/ \E s \in Slots : SignupGotUsers(s)
    \/ \E s \in Slots : SignupSaved(s)
    \/ \E s \in Slots : SignupSetItem(s)
    \/ LoadUserEffect
    \/ LoadUserResolve

RaceSpec == Init /\ [][RaceNext]_vars

\* what the caller of the call in slot s sees when the call has returned
Observed(s) ==
    [op |-> calls[s].op, result |-> calls[s].outcome.result,
     account |-> calls[s].newUser, faults |-> calls[s].faults,
     user |-> user, slot |-> storage[AUTH_STORAGE_KEY]]

\* the caller receives the result of the first or second call of a session
\* of use and goes on to the next call
Observe(s) ==
    /\ calls[s].pc = "done"
    /\ Len(hist.script) < 2
    /\ calls' = [calls EXCEPT ![s] = IdleCall]
    /\ hist' = [hist EXCEPT !.script = Append(@, Observed(s))]
    /\ UNCHANGED <<form, storage, user, isLoading, loadPc, restarts>>

\* a session of use: sign up, log out, then log in with the credentials of
\* the signup or log out once more
TripNext ==
    \/ hist.script = <<>> /\ Quiet
         /\ \E s \in Slots, name \in Names, email \in Emails,
               password \in Passwords :
              SignupCall(s, name, email, password)
    \/ Len(hist.script) \in {1, 2} /\ Quiet /\ \E s \in Slots : LogoutCall(s)
    \/ Len(hist.script) = 2 /\ Quiet /\ hist.script[1].account # None
         /\ \E s \in Slots :
              LoginCall(s, hist.script[1].account[1].email,
                        hist.script[1].account[1].password)
    \/ LoadUserEffect
    \/ LoadUserResolve
    \/ \E s \in Slots : LoginGotUsers(s)
    \/ \E s \in Slots : LoginSetItem(s)
    \/ \E s \in Slots : SignupGotUsers(s)
    \/ \E s \in Slots : SignupSaved(s)
    \/ \E s \in Slots : SignupSetItem(s)
    \/ \E s \in Slots : LogoutRemoved(s)
    \/ \E s \in Slots : Observe(s)

TripSpec == Init /\ [][TripNext]_vars

\* a user at the Login or the Signup screen: typing, leaving fields and
\* pressing the button
FormInit == \E screen \in FormScreens : InitOn(EmptyStorage, screen)

FormNext ==
    \/ \E field \in FieldSet("Signup"), value \in PasswordValues \cup
            NameValues \cup EmailValues :
          value \in Typed(field) /\ ChangeText(field, value)
    \/ \E field \in FieldSet("Signup") : handleBlur(field)
    \/ Submit
    \/ Returned

FormSpec == FormInit /\ [][FormNext]_vars

\* the button of the Login or Signup screen can be pressed: the screen is in
\* the navigator and no call made from these screens is awaited
CanPress(screen) ==
    /\ screen \in MainStackScreens(user)
    /\ \A t \in Slots : calls[t].op \notin {"login", "signup"}

\* the values pass the submit-time validation of the Login screen
LoginFormValid(email, password) ==
    /\ validateField("Login", "email", email, password) = None
    /\ validateField("Login", "password", password, password) = None

\* the values pass the submit-time validation of the Signup screen, the
\* password confirmed
SignupFormValid(name, email, password) ==
    /\ validateField("Signup", "name", name, password) = None
    /\ validateField("Signup", "email", email, password) = None
    /\ validateField("Signup", "password", password, password) = None
    /\ validateField("Signup", "confirmPassword", password, password) = None

\* calls are made by the screens only: login and signup by the buttons of
\* the Login and Signup screens with values that pass their validation,
\* logout by the confirmed Logout of the Home screen
UiNext ==
    \/ CanPress("Login")
         /\ \E s \in Slots, email \in Emails, password \in Passwords :
              /\ LoginFormValid(email, password)
              /\ LoginCall(s, trim(email), password)
    \/ CanPress("Signup")
         /\ \E s \in Slots, name \in Names, email \in Emails,
               password \in Passwords :
              /\ SignupFormValid(name, email, password)
              /\ SignupCall(s, trim(name), trim(email), password)
    \/ "HomeTabs" \in MainStackScreens(user) /\ \E s \in Slots : LogoutCall(s)
    \/ Step

UiSpec == Init /\ [][UiNext]_vars

\* the in-memory user when the last observed call returned (null at mount)
UserAtRest ==
    IF hist.script = <<>> THEN None
    ELSE hist.script[Len(hist.script)].user

\* the startup load has finished, no call is in flight and the user is the
\* one the last call left
Resting ==
    /\ loadPc = "done"
    /\ Quiet
    /\ user = UserAtRest

\* calls made one after the other once the startup load has finished, the
\* caller looking at each result before the next call
RestNext ==
    \/ Resting /\ \E s \in Slots, email \in Emails, password \in Passwords :
                   LoginCall(s, email, password)
    \/ Resting /\ \E s \in Slots, name \in Names, email \in Emails,
                     password \in Passwords :
                   SignupCall(s, name, email, password)
    \/ Resting /\ \E s \in Slots : LogoutCall(s)
    \/ LoadUserEffect
    \/ LoadUserResolve
    \/ \E s \in Slots : LoginGotUsers(s)
    \/ \E s \in Slots : LoginSetItem(s)
    \/ \E s \in Slots : SignupGotUsers(s)
    \/ \E s \in Slots : SignupSaved(s)
    \/ \E s \in Slots : SignupSetItem(s)
    \/ \E s \in Slots : LogoutRemoved(s)
    \/ \E s \in Slots : Observe(s)

RestSpec == Init /\ [][RestNext]_vars

\* names and emails typed with blanks around them
PaddedNames == { <<" ", "J">>, <<"J", "o", " ">>, <<" ", "J", "o", "e", " ">> }
PaddedEmails ==
    { <<" ", "a", "@", "b", ".", "c">>, <<"a", "@", "b", ".", "c", " ">> }

\* handleSignup with any typed values: validateAllFields, then signup with
\* the name and the email trimmed
handleSignup(s, name, email, password) ==
    /\ SignupFormValid(name, email, password)
    /\ SignupCall(s, trim(name), trim(email), password)

\* signups are made by the button of the Signup screen only, logouts by the
\* Home screen
SignupUiNext ==
    \/ CanPress("Signup")
         /\ \E s \in Slots, name \in NameValues \cup PaddedNames,
               email \in EmailValues \cup PaddedEmails,
               password \in PasswordValues :
              handleSignup(s, name, email, password)
    \/ "HomeTabs" \in MainStackScreens(user) /\ \E s \in Slots : LogoutCall(s)
    \/ LoadUserEffect
    \/ LoadUserResolve
    \/ \E s \in Slots : SignupGotUsers(s)
    \/ \E s \in Slots : SignupSaved(s)
    \/ \E s \in Slots : SignupSetItem(s)
    \/ \E s \in Slots : LogoutRemoved(s)
    \/ \E s \in Slots : Settle(s)

SignupUiSpec == Init /\ [][SignupUiNext]_vars

----------------------------------------------------------------------------
(* Screens: what the handlers do with the settled promise of a call *)

\* Login: const result = await login(...); alert if !result.success &&
\* result.error
handleLogin_alert(outcome) ==
    /\ outcome.settled = "resolved"
    /\ ~outcome.result.success
    /\ outcome.result.error # None

\* Signup: await signup(...) inside try, the alert is in the catch block
handleSignup_alert(outcome) == outcome.settled = "rejected"

\* Home: await logout() inside try, the alert is in the catch block
Home_handleLogout_alert(outcome) == outcome.settled = "rejected"

\* Settings: const result = await logout(); alert if !result.success &&
\* result.error
Settings_handleLogout_alert(outcome) ==
    /\ outcome.settled = "resolved"
    /\ ~outcome.result.success
    /\ outcome.result.error # None

\* the failures of the engine's own argument checks, which the forms of the
\* screens rule out before they call
ArgumentFailures ==
    { Fail("Email and password are required"),
      Fail("Name, email, and password are required"),
      Fail("Invalid email format"),
      Fail("Password must be at least 6 characters") }

----------------------------------------------------------------------------
(* Properties *)

Done(s) == calls[s].pc = "done"
Result(s) == calls[s].outcome.result
SessionSlot == storage[AUTH_STORAGE_KEY]
DuplicateEmail == "User with this email already exists"

\* no call and no startup load is in flight
AtRest == loadPc = "done" /\ \A s \in Slots : ~InFlight(calls[s])

UniqueEmails ==
    \A i, j \in 1..Len(Accounts) :
        i # j => toLowerCase(Accounts[i].email) # toLowerCase(Accounts[j].email)

\* a signup that reads a collection holding an account with its email
\* (ignoring case) fails with DuplicateEmail
DuplicateRejected ==
    \A s \in Slots :
        ( /\ calls[s].op = "signup"
          /\ calls[s].pc = "getStoredUsers"
          /\ calls'[s].pc # "getStoredUsers"
          /\ calls'[s].op = "signup"
          /\ "read" \notin calls'[s].faults
          /\ \E i \in 1..Len(Accounts) :
                toLowerCase(Accounts[i].email) = toLowerCase(calls[s].email) )
        => ( /\ calls'[s].pc = "done"
             /\ calls'[s].outcome = Resolved(Fail(DuplicateEmail))
             /\ storage' = storage )

\* C1: after any sequence of signup calls no two accounts of the persisted
\* collection have emails that are equal ignoring case, and a signup whose
\* email equals, ignoring case, the email of an account it reads from the
\* collection fails with "User with this email already exists".
C1_UniqueEmail == [] UniqueEmails /\ [][DuplicateRejected]_vars

\* a signup with the email of a stored account in another case was rejected
C1_Witness ==
    \E s \in Slots, i \in 1..Len(Accounts) :
        /\ calls[s].op = "signup"
        /\ Done(s)
        /\ Result(s) = Fail(DuplicateEmail)
        /\ calls[s].email # Accounts[i].email
        /\ toLowerCase(calls[s].email) = toLowerCase(Accounts[i].email)

\* C2: whenever no login, signup, logout or startup load is in flight, the
\* in-memory user is non-null exactly when the session slot holds a user,
\* and then the two are the same user.
C2_UserMirrorsSlot ==
    AtRest =>
        /\ user = None <=> SessionSlot = None
        /\ user # None => SessionSlot = Some(JSONstringify(user[1]))

\* C3: a call whose write of the account collection, write of the session
\* slot or removal of the session slot faulted returns success = false.
C3_WriteFaultFails ==
    \A s \in Slots :
        (Done(s) /\ calls[s].faults \cap {"insert", "save", "clear"} # {})
            => ~Result(s).success

AuthResults ==
    {Ok} \cup {Fail(msg) : msg \in
        { "Email and password are required",
          "Invalid email or password",
          "An unexpected error occurred during login",
          "Name, email, and password are required",
          "Invalid email format",
          "Password must be at least 6 characters",
          DuplicateEmail,
          "An unexpected error occurred during signup",
          "An unexpected error occurred during logout" }}

\* C4: login, signup and logout always resolve to an AuthResult and never
\* reject, whichever storage operation or parse step faulted in the call.
C4_NeverRejects ==
    \A s \in Slots :
        /\ calls[s].outcome.settled # "rejected"
        /\ Done(s) => /\ calls[s].outcome.settled = "resolved"
                       /\ Result(s) \in AuthResults

\* a logout whose removeItem faulted has returned a failed AuthResult
C4_Witness ==
    \E s \in Slots :
        /\ calls[s].op = "logout"
        /\ Done(s)
        /\ "clear" \in calls[s].faults
        /\ calls[s].outcome = Resolved(Fail("An unexpected error occurred during logout"))

\* C5: while the engine is initializing (isLoading is true before and after
\* the step) no step changes the in-memory user or the session slot.
C5_NoChangeWhileLoading ==
    [][(isLoading /\ isLoading') =>
          (user' = user /\ storage'[AUTH_STORAGE_KEY] = storage[AUTH_STORAGE_KEY])]_vars

\* C6: the startup load is issued exactly once per AuthProvider lifetime, its
\* resolution eventually sets isLoading to false whether the read returns a
\* user, nothing or a fault, and within a lifetime isLoading never becomes
\* true again.
C6_LoadsOnce ==
    /\ [](hist.loads <= 1 /\ (loadPc # "mount" => hist.loads = 1))
    /\ [](loadPc = "done" => ~isLoading)
    /\ (isLoading ~> ~isLoading)
    /\ [][(~isLoading /\ restarts' = restarts) => ~isLoading']_vars

\* the startup read faulted and the engine is ready
C6_Witness == hist.loadOutcome = "fault" /\ ~isLoading /\ hist.loads = 1

\* the process was restarted over a stored session user, the startup load
\* has resolved and no call was made since the restart
RestoredAfterRestart ==
    /\ restarts > 0
    /\ loadPc = "done"
    /\ ~hist.called
    /\ SessionSlot # None

\* C7 as stated: after a restart over a persisted session user the startup
\* load ends authenticated with that user, without any call.
C7_RestartRestores ==
    RestoredAfterRestart => user = Some(JSONparse(SessionSlot[1]))

\* C7, amended: after a restart over a persisted session user the startup
\* load ends authenticated with that user (same id, name, email), without
\* any call, unless the startup read of the session slot faults.
C7_RestartRestoresUnlessFault ==
    (RestoredAfterRestart /\ hist.loadOutcome # "fault")
        => user = Some(JSONparse(SessionSlot[1]))

C7_Witness ==
    /\ RestoredAfterRestart
    /\ hist.loadOutcome = "user"
    /\ user = Some(JSONparse(SessionSlot[1]))

IsSessionUser(u) == DOMAIN u = {"id", "name", "email"}

\* C8: after the startup load resolves the in-memory user is null or a
\* complete session user with id, name and email.
C8_NoPartialUser ==
    loadPc = "done" => (user = None \/ IsSessionUser(user[1]))

\* the call has created an account and finished its write of the collection
Inserted(s) ==
    /\ calls[s].op = "signup"
    /\ calls[s].newUser # None
    /\ calls[s].pc \in {"setItem", "done"}

\* the number of persisted accounts whose email equals email ignoring case
CountEmail(email) ==
    Cardinality({i \in 1..Len(Accounts) :
        toLowerCase(Accounts[i].email) = toLowerCase(email)})

\* two signups with the same email (ignoring case) both read the collection
\* and passed the duplicate check before either wrote it, and both writes
\* have completed without a fault
Raced(s, t) ==
    /\ s # t
    /\ calls[s].overlap
    /\ Inserted(s) /\ Inserted(t)
    /\ toLowerCase(calls[s].email) = toLowerCase(calls[t].email)
    /\ "insert" \notin calls[s].faults \cup calls[t].faults

\* C9 as stated: after two signups with the same email both read before
\* either writes, the persisted collection contains two accounts with that
\* email.
C9_RaceStoresTwo ==
    \A s, t \in Slots : Raced(s, t) => CountEmail(calls[s].email) = 2

\* C9, amended: two signups with the same email that both read before either
\* writes both pass the duplicate check, and the persisted collection then
\* contains exactly one account with that email, the one of the two that
\* was written last: each call writes its own copy of the collection.
C9_RaceStoresOne ==
    \A s, t \in Slots : Raced(s, t) =>
        /\ CountEmail(calls[s].email) = 1
        /\ Accounts[Len(Accounts)] \in {calls[s].newUser[1], calls[t].newUser[1]}

\* both racing signups have returned success
C9_Witness ==
    \E s, t \in Slots :
        /\ Raced(s, t)
        /\ Done(s) /\ Done(t)
        /\ Result(s) = Ok /\ Result(t) = Ok
        /\ CountEmail(calls[s].email) = 1

\* C10: an account of the persisted collection stays in it, unchanged, at
\* every step of login, signup and logout, with or without storage faults.
C10_AccountsKept ==
    [][\A i \in 1..Len(Accounts) :
          \E j \in 1..Len(Accounts') : Accounts'[j] = Accounts[i]]_vars

\* the signup in slot s has returned after its write put its account into the
\* persisted collection
AddedAccount(s) ==
    /\ calls[s].op = "signup"
    /\ Done(s)
    /\ calls[s].newUser # None
    /\ "insert" \notin calls[s].faults
    /\ \E i \in 1..Len(Accounts) : Accounts[i] = calls[s].newUser[1]

\* C11: whenever a signup, run with no other call and no restoring startup
\* load beside it, has added an account to the persisted collection, it
\* returns success and the in-memory user and the session slot hold the
\* session user of that account.
C11_SignupAuthenticates ==
    \A s \in Slots :
        (AddedAccount(s) /\ hist.loadOutcome # "user")
            => /\ Result(s) = Ok
               /\ user = Some(LoggedInUser(calls[s].newUser[1]))
               /\ SessionSlot =
                    Some(JSONstringify(LoggedInUser(calls[s].newUser[1])))

\* the first two calls of the session of use were a signup and a logout that
\* both returned success, and the third call, in slot s, has returned
TripDone(s, op) ==
    /\ Len(hist.script) = 2
    /\ hist.script[1].op = "signup" /\ hist.script[1].result = Ok
    /\ hist.script[2].op = "logout" /\ hist.script[2].result = Ok
    /\ calls[s].op = op
    /\ Done(s)

\* C12: a successful signup, then logout, then login with the same email and
\* password (none of the login's storage operations faulting) succeeds, and
\* the session user after the login is the session user right after the
\* signup.
C12_RoundTrip ==
    \A s \in Slots :
        (TripDone(s, "login") /\ calls[s].faults = {})
            => /\ Result(s) = Ok
               /\ user = hist.script[1].user

\* {id, name, email} of an account
SessionUserOf(a) == [id |-> a.id, name |-> a.name, email |-> a.email]

\* the accounts of the persisted collection that match the credentials
Matching(email, password) ==
    { i \in 1..Len(Accounts) :
        /\ toLowerCase(Accounts[i].email) = toLowerCase(email)
        /\ Accounts[i].password = password }

\* a login that has read the collection goes on exactly when an account
\* matches, and then sets the in-memory user to that account's session user
LoginFindsAccount ==
    \A s \in Slots :
        ( /\ calls[s].op = "login" /\ calls'[s].op = "login"
          /\ calls[s].pc = "getStoredUsers"
          /\ calls'[s].pc # "getStoredUsers"
          /\ "read" \notin calls'[s].faults )
        => IF Matching(calls[s].email, calls[s].password) = {}
           THEN calls'[s].pc = "done" /\ ~calls'[s].outcome.result.success
           ELSE /\ calls'[s].pc = "setItem"
                /\ \E i \in Matching(calls[s].email, calls[s].password) :
                      /\ user' = Some(SessionUserOf(Accounts[i]))
                      /\ calls'[s].loggedInUser = user'

\* a login that has found its account and whose session write does not fault
\* returns success with the session slot holding that session user
LoginPersistsSession ==
    \A s \in Slots :
        ( /\ calls[s].op = "login" /\ calls'[s].op = "login"
          /\ calls[s].pc = "setItem"
          /\ calls'[s].pc = "done"
          /\ "save" \notin calls'[s].faults )
        => /\ calls'[s].outcome = Resolved(Ok)
           /\ storage'[AUTH_STORAGE_KEY] =
                Some(JSONstringify(calls[s].loggedInUser[1]))
           /\ user' = user

\* a login has returned success only with the session slot holding the
\* session user of an account with its email (ignoring case)
LoginSucceeded ==
    \A s \in Slots :
        (calls[s].op = "login" /\ Done(s) /\ Result(s).success)
            => \E i \in 1..Len(Accounts) :
                  /\ toLowerCase(Accounts[i].email) = toLowerCase(calls[s].email)
                  /\ SessionSlot = Some(JSONstringify(SessionUserOf(Accounts[i])))

\* C13: with no storage operation of the call faulting, login with non-empty
\* arguments succeeds if and only if the collection holds an account whose
\* email equals the given email ignoring case and whose password equals the
\* given password exactly; on success the call sets the in-memory user and
\* the session slot to {id, name, email} of that account, the email as stored.
C13_LoginCorrect ==
    /\ [] LoginSucceeded
    /\ [][LoginFindsAccount /\ LoginPersistsSession]_vars

\* a login with the email of an account in another case has returned success,
\* user and slot holding the account's session user with the stored email
C13_Witness ==
    \E s \in Slots, i \in 1..Len(Accounts) :
        /\ calls[s].op = "login" /\ Done(s) /\ Result(s) = Ok
        /\ calls[s].email # Accounts[i].email
        /\ user = Some(SessionUserOf(Accounts[i]))
        /\ SessionSlot = Some(JSONstringify(SessionUserOf(Accounts[i])))

InvalidCredentials == "Invalid email or password"

\* starting a login changes neither the user nor the storage
LoginStartKeeps ==
    \A s \in Slots :
        (calls[s].pc = "idle" /\ calls'[s].op = "login")
            => user' = user /\ storage' = storage

\* a login that has read the collection while no stored account matches its
\* credentials returns the InvalidCredentials failure and changes nothing
LoginNoMatchFails ==
    \A s \in Slots :
        ( /\ calls[s].op = "login" /\ calls'[s].op = "login"
          /\ calls[s].pc = "getStoredUsers"
          /\ calls'[s].pc # "getStoredUsers"
          /\ Matching(calls[s].email, calls[s].password) = {} )
        => /\ calls'[s].pc = "done"
           /\ calls'[s].outcome = Resolved(Fail(InvalidCredentials))
           /\ user' = user
           /\ storage' = storage

\* C14: login with non-empty credentials that match no stored account
\* returns {success: false, error: "Invalid email or password"} and leaves
\* the in-memory user, the session slot and the account collection unchanged.
C14_NoMatchNoChange == [][LoginStartKeeps /\ LoginNoMatchFails]_vars

\* a login matching no account has failed while a user is logged in and
\* persisted
C14_Witness ==
    \E s \in Slots :
        /\ calls[s].op = "login" /\ Done(s)
        /\ Result(s) = Fail(InvalidCredentials)
        /\ "read" \notin calls[s].faults
        /\ Len(Accounts) > 0
        /\ user # None
        /\ SessionSlot = Some(JSONstringify(user[1]))

\* starting a signup changes neither the user nor the storage
SignupStartKeeps ==
    \A s \in Slots :
        (calls[s].pc = "idle" /\ calls'[s].op = "signup")
            => user' = user /\ storage' = storage

\* the step in which a signup returns the DuplicateEmail failure follows its
\* read of the collection and changes neither the user nor the storage
DuplicateKeeps ==
    \A s \in Slots :
        ( /\ calls[s].op = "signup" /\ calls'[s].op = "signup"
          /\ calls[s].pc # "done" /\ calls'[s].pc = "done"
          /\ calls'[s].outcome = Resolved(Fail(DuplicateEmail)) )
        => /\ calls[s].pc = "getStoredUsers"
           /\ user' = user
           /\ storage' = storage

\* C15: a signup that fails with "User with this email already exists"
\* leaves the account collection, the session slot and the in-memory user
\* exactly as they were before the call.
C15_DuplicateNoChange == [][SignupStartKeeps /\ DuplicateKeeps]_vars

\* a signup for a registered email has failed while nobody is logged in: the
\* collection holds the one account and user and slot are still empty
C15_Witness ==
    \E s \in Slots :
        /\ calls[s].op = "signup" /\ Done(s)
        /\ Result(s) = Fail(DuplicateEmail)
        /\ Len(Accounts) = 1
        /\ user = None
        /\ SessionSlot = None

\* the second and the third call of the session of use are logouts whose
\* removeItem did not fault, and the third, in slot s, has returned
LoggedOutTwice(s) ==
    /\ Len(hist.script) = 2
    /\ hist.script[2].op = "logout" /\ hist.script[2].faults = {}
    /\ calls[s].op = "logout" /\ Done(s) /\ calls[s].faults = {}

\* C16: calling logout twice in a row (storage working) returns success both
\* times, and after the second call the state is Unauthenticated: the
\* in-memory user is null and the session slot is absent, as the slot was
\* after the first call.
C16_LogoutTwice ==
    \A s \in Slots :
        LoggedOutTwice(s)
            => /\ hist.script[2].result = Ok
               /\ hist.script[2].slot = None
               /\ Result(s) = Ok
               /\ user = None
               /\ SessionSlot = None

\* a user signed up and was logged in, then logged out twice
C16_Witness ==
    \E s \in Slots :
        /\ LoggedOutTwice(s)
        /\ TripDone(s, "logout")
        /\ hist.script[1].user # None
        /\ hist.script[1].slot # None
        /\ user = None

LoggedOutSlotAbsent ==
    \A s \in Slots :
        (calls[s].op = "logout" /\ Done(s) /\ Result(s).success)
            => SessionSlot = None

\* a startup load after a restart that found the session slot absent has
\* resolved without a user
AbsentSlotRestoresNobody ==
    ( /\ restarts > 0 /\ ~hist.called
      /\ loadPc = "done"
      /\ SessionSlot = None )
    => user = None

\* the step that starts a logout sets the in-memory user to null
LogoutNullsUser ==
    \A s \in Slots :
        (calls[s].pc = "idle" /\ calls'[s].op = "logout") => user' = None

C18_ErrorIffFailure ==
    \A s \in Slots :
        Done(s) => (Result(s).error # None <=> ~Result(s).success)

\* a signup whose session write faulted has returned a failure with the
\* message of its catch block
C18_Witness ==
    \E s \in Slots :
        /\ calls[s].op = "signup" /\ Done(s)
        /\ "save" \in calls[s].faults
        /\ ~Result(s).success
        /\ Result(s).error = Some("An unexpected error occurred during signup")

\* C19: every account added by signup gets an id different from the id of
\* every account already in the collection, whatever the clock readings of
\* successive signups: no two accounts of the persisted collection have the
\* same id.
C19_UniqueIds ==
    \A i, j \in 1..Len(Accounts) :
        i # j => Accounts[i].id # Accounts[j].id

\* the screens of the main app
MainAppScreens == {"HomeTabs", "Profile", "Settings", "About"}

\* C20: in every state in which the in-memory user is null, no main-app
\* screen (HomeTabs, Profile, Settings, About) is among the screens the
\* navigator can navigate to, and Login and Signup are.
C20_ProtectedRoutes ==
    user = None =>
        /\ MainStackScreens(user) \cap MainAppScreens = {}
        /\ {"Login", "Signup"} \subseteq MainStackScreens(user)

\* C21: while isLoading is true, navigation shows a loading screen and
\* renders neither the Login and Signup screens nor the main-app screens.
C21_LoadingScreen ==
    isLoading =>
        /\ Navigation(isLoading, user).loadingScreen
        /\ Navigation(isLoading, user).screens
              \cap ({"Login", "Signup"} \cup MainAppScreens) = {}

\* C22: every failed AuthResult that login, signup or logout returns to a
\* screen handler (Login, Signup, Home, Settings) leads to an alert; in
\* particular a failed signup shows an alert.
C22_FailureAlerts ==
    \A s \in Slots :
        (Done(s) /\ ~Result(s).success /\ Result(s) \notin ArgumentFailures)
            => /\ calls[s].op = "login" => handleLogin_alert(calls[s].outcome)
               /\ calls[s].op = "signup" => handleSignup_alert(calls[s].outcome)
               /\ calls[s].op = "logout" =>
                     /\ Home_handleLogout_alert(calls[s].outcome)
                     /\ Settings_handleLogout_alert(calls[s].outcome)

\* the step that starts a login or a signup ends the call at once with one
\* of the argument failures or goes on to read the collection, and changes
\* neither the user nor the storage
ArgumentsChecked ==
    \A s \in Slots :
        (calls[s].pc = "idle" /\ calls'[s].op \in {"login", "signup"})
            => /\ calls'[s].pc \in {"done", "getStoredUsers"}
               /\ calls'[s].pc = "done" =>
                     /\ calls'[s].outcome.settled = "resolved"
                     /\ calls'[s].outcome.result \in ArgumentFailures
               /\ user' = user
               /\ storage' = storage

\* a login that has gone on past its argument check has a non-empty email
\* and password; a signup that has gone on has a non-empty name, an email
\* without spaces with text, "@", text, "." and text, and a password of at
\* least 6 characters
PastArgumentCheck ==
    \A s \in Slots :
        InFlight(calls[s]) =>
            /\ calls[s].op = "login" =>
                  calls[s].email # <<>> /\ calls[s].password # <<>>
            /\ calls[s].op = "signup" =>
                  /\ calls[s].name # <<>>
                  /\ calls[s].email # <<>>
                  /\ \E i, j \in 1..Len(calls[s].email) :
                        /\ 1 < i /\ i + 1 < j /\ j < Len(calls[s].email)
                        /\ calls[s].email[i] = "@"
                        /\ calls[s].email[j] = "."
                  /\ Len(calls[s].password) >= 6

\* C23: login with an empty email or password, and signup with an empty
\* name, email or password, an email that does not match the pattern, or a
\* password shorter than 6 characters, return success = false without
\* writing storage and without changing the in-memory user, the session slot
\* or the account collection.
C23_BadArgumentsNoChange == [] PastArgumentCheck /\ [][ArgumentsChecked]_vars

\* a signup with a malformed email has failed while a user is logged in and
\* persisted
C23_Witness ==
    \E s \in Slots :
        /\ calls[s].op = "signup" /\ Done(s)
        /\ Result(s) = Fail("Invalid email format")
        /\ Len(Accounts) = 1
        /\ user # None
        /\ SessionSlot = Some(JSONstringify(user[1]))

\* v has the fields id, name and email and no other
NoPassword(v) == DOMAIN v = {"id", "name", "email"}

\* C24: in every reachable state of an installation that started with empty
\* storage, neither the in-memory user nor the value in the session slot
\* (which only the engine has written) contains an account's password: each
\* has exactly the fields id, name and email.
C24_NoPasswordInSession ==
    /\ user # None => NoPassword(user[1])
    /\ SessionSlot # None =>
          /\ ~JSONparseThrows(SessionSlot[1])
          /\ NoPassword(JSONparse(SessionSlot[1]))

\* a logged-in and persisted session user is the projection of a persisted
\* account that has a password
C24_Witness ==
    \E i \in 1..Len(Accounts) :
        /\ Accounts[i].password # <<>>
        /\ user = Some(SessionUserOf(Accounts[i]))
        /\ SessionSlot = Some(JSONstringify(SessionUserOf(Accounts[i])))

\* the call in slot s takes the step that follows its read of the
\* collection, and the read faulted or the stored text does not parse
ReadFailed(s) ==
    /\ calls[s].pc = "getStoredUsers"
    /\ calls'[s].pc # "getStoredUsers"
    /\ calls'[s].op = calls[s].op
    /\ \/ "read" \in calls'[s].faults
       \/ /\ storage[USERS_STORAGE_KEY] # None
          /\ JSONparseThrows(storage[USERS_STORAGE_KEY][1])

\* C30: if reading or parsing the account collection faults, the collection
\* is treated as empty and the fault is not propagated: login then returns
\* "Invalid email or password", and signup goes on with a collection that
\* holds its new account alone.
C30_ReadFaultIsEmpty ==
    [][ \A s \in Slots :
          ReadFailed(s) =>
            /\ calls[s].op = "login" =>
                  /\ calls'[s].pc = "done"
                  /\ calls'[s].outcome = Resolved(Fail(InvalidCredentials))
            /\ calls[s].op = "signup" =>
                  /\ calls'[s].pc = "saveStoredUsers"
                  /\ calls'[s].newUser # None
                  /\ calls'[s].users = <<calls'[s].newUser[1]>> ]_vars

\* a login whose read of the collection faulted has failed with the lookup
\* message although the persisted collection holds an account with its email
C30_Witness ==
    \E s \in Slots, i \in 1..Len(Accounts) :
        /\ calls[s].op = "login" /\ Done(s)
        /\ "read" \in calls[s].faults
        /\ Accounts[i].email = calls[s].email
        /\ Result(s) = Fail(InvalidCredentials)

\* what the claim says validateField returns for the password value v
PasswordVerdict(v) ==
    IF Len(v) = 0 THEN Some("Password is required")
    ELSE IF Len(v) \in 1..5 THEN Some("Password must be at least 6 characters")
    ELSE None

\* validateField of both screens gives the verdict for the password typed
PasswordValidated ==
    \A screen \in FormScreens :
        validateField(screen, "password", form.values["password"],
                      form.values["password"])
            = PasswordVerdict(form.values["password"])

\* the step in which the password field becomes touched (the field is left,
\* or the button is pressed) leaves the field with the verdict as its error
PasswordBlurred ==
    (~form.touched["password"] /\ form'.touched["password"])
        => form'.errors["password"] = PasswordVerdict(form.values["password"])

\* C25: validateField for the password field returns "Password is required"
\* for the empty string, "Password must be at least 6 characters" for every
\* value of length 1 to 5 and no error for every value of length 6 or more,
\* identically on the Login and Signup screens.
C25_PasswordRule == [] PasswordValidated /\ [][PasswordBlurred]_vars

\* on the Signup screen a password of exactly 6 characters has been typed
\* and the field left, and the field has no error
C25_Witness ==
    /\ form.screen = "Signup"
    /\ Len(form.values["password"]) = 6
    /\ form.touched["password"]
    /\ ~form.touched["confirmPassword"]
    /\ form.errors["password"] = None

\* the validateField result of a field of the form f
FieldVerdict(f, field) ==
    validateField(f.screen, field, f.values[field], f.values["password"])

\* the button was pressed: only a submit makes several fields touched in
\* one step
Submitted ==
    Cardinality({ field \in DOMAIN form.touched :
                    ~form.touched[field] /\ form'.touched[field] }) >= 2

\* a submit leaves every field touched and with its validateField result as
\* its error, and awaits an engine call exactly when no field has an error
SubmitValidatesAll ==
    Submitted =>
        /\ \A field \in DOMAIN form.touched :
              /\ form'.touched[field]
              /\ form'.errors[field] = FieldVerdict(form, field)
        /\ form'.call # None <=>
              \A field \in DOMAIN form.touched : FieldVerdict(form, field) = None

\* a screen awaits an engine call only with a form all of whose fields are
\* valid, and with the trimmed values of the form as the arguments
CallOnlyIfValid ==
    form.call # None =>
        /\ form.isLoading
        /\ \A field \in DOMAIN form.touched :
              FieldVerdict(form, field) = None /\ form.errors[field] = None
        /\ form.call[1].email = trim(form.values["email"])
        /\ form.call[1].password = form.values["password"]

\* C26: submit-time validation evaluates every field of the form regardless
\* of earlier failures: the resulting error mapping has an entry for exactly
\* the fields whose validateField result is an error, all fields become
\* touched, and the engine call is made only if the mapping is empty.
C26_SubmitValidatesAll == [] CallOnlyIfValid /\ [][SubmitValidatesAll]_vars

\* the empty Signup form after the button was pressed: every field is
\* touched and has its "required" error, and no call was made
C26_Witness ==
    /\ form.screen = "Signup"
    /\ \A field \in DOMAIN form.touched :
          /\ form.values[field] = <<>>
          /\ form.touched[field]
          /\ form.errors[field] # None
    /\ form.call = None

ShortPasswordTyped ==
    /\ form'.values["password"] # form.values["password"]
    /\ Len(form'.values["password"]) \in 1..5

\* C28 as stated: typing a value of 1 to 5 characters into the password
\* field makes the error "Password must be at least 6 characters" appear to
\* the user as they type, before the field is blurred.
C28_ShortPasswordShown ==
    [][ ShortPasswordTyped =>
          /\ form'.errors["password"] = Some(PasswordTooShort)
          /\ showsErrorText(form', "password") ]_vars

\* C28, amended: typing a value of 1 to 5 characters into the password field
\* stores the error "Password must be at least 6 characters" as they type,
\* and the error is shown at once exactly when the field is touched (it was
\* blurred before, or a submit was attempted).
C28_ShortPasswordShownIfTouched ==
    [][ ShortPasswordTyped =>
          /\ form'.errors["password"] = Some(PasswordTooShort)
          /\ showsErrorText(form', "password") <=> form.touched["password"]
          /\ showsInputError(form', "password") <=> form.touched["password"] ]_vars

\* after a submit of the empty Login form one character was typed into the
\* password field, and the error of the short password is shown
C28_Witness ==
    /\ form.screen = "Login"
    /\ form.touched["password"]
    /\ form.values["email"] = <<>>
    /\ Len(form.values["password"]) = 1
    /\ form.errors["password"] = Some(PasswordTooShort)
    /\ showsErrorText(form, "password")

\* C29: when calls originate from the screens, at most one mutating engine
\* call (login, signup, logout) is in flight at any time.
C29_OneCallInFlight ==
    Cardinality({ s \in Slots : InFlight(calls[s]) }) <= 1

\* C31: when a storage write or remove fault makes login, signup or logout
\* return success=false, the in-memory user is the same as before the call.
WriteFaults == {"insert", "save", "clear"}

FailedByWriteFault(s) ==
    /\ calls[s].pc = "done"
    /\ calls[s].outcome.settled = "resolved"
    /\ ~calls[s].outcome.result.success
    /\ calls[s].faults \cap WriteFaults # {}

C31_FailedCallKeepsUser ==
    \A s \in Slots : FailedByWriteFault(s) => user = UserAtRest

\* the signup in slot s has returned success and met no storage fault
SignedUp(s) ==
    /\ calls[s].op = "signup"
    /\ Done(s)
    /\ Result(s) = Ok
    /\ calls[s].faults = {}

Persisted(account) == \E i \in 1..Len(Accounts) : Accounts[i] = account

\* C32: for two signup calls with different emails that interleave in any
\* way, once both have returned success (no storage operation having
\* failed) the persisted account collection contains both new accounts.
C32_NoLostSignup ==
    \A s, t \in Slots :
        (/\ s # t
         /\ SignedUp(s) /\ SignedUp(t)
         /\ toLowerCase(calls[s].email) # toLowerCase(calls[t].email))
        => /\ Persisted(calls[s].newUser[1])
           /\ Persisted(calls[t].newUser[1])

\* C33: in every reachable state in which the in-memory user is non-null,
\* the persisted account collection contains an account with the same id,
\* name and email.
C33_UserHasAccount ==
    user # None =>
        \E i \in 1..Len(Accounts) :
            /\ Accounts[i].id = user[1].id
            /\ Accounts[i].name = user[1].name
            /\ Accounts[i].email = user[1].email

\* the step in which the login in slot s, having read the collection,
\* returns a failure
LoginRefused(s) ==
    /\ calls[s].op = "login" /\ calls'[s].op = "login"
    /\ calls[s].pc = "getStoredUsers" /\ calls'[s].pc = "done"
    /\ ~calls'[s].outcome.result.success

\* what a refused login returns and leaves behind, whether or not an account
\* has its email
RefusedAlike ==
    \A s \in Slots :
        LoginRefused(s) =>
            /\ calls'[s].outcome = Resolved(Fail(InvalidCredentials))
            /\ calls'[s].loggedInUser = None
            /\ user' = user
            /\ storage' = storage
            /\ isLoading' = isLoading

\* C34: the result of a failed login does not reveal whether the email is
\* registered: login with an unknown email and login with a known email
\* and a wrong password return the same AuthResult and leave the same state.
C34_FailureHidesRegistration == [][RefusedAlike]_vars

\* a login with the email of a stored account and a wrong password has been
\* refused
C34_Witness ==
    \E s \in Slots :
        /\ calls[s].op = "login" /\ Done(s)
        /\ Result(s) = Fail(InvalidCredentials)
        /\ calls[s].faults = {}
        /\ CountEmail(calls[s].email) = 1
        /\ \A i \in 1..Len(Accounts) : Accounts[i].password # calls[s].password

\* a signup that starts goes on to the read of the collection: its
\* arguments have passed the engine's pre-checks
SignupStartsPastChecks ==
    \A s \in Slots :
        (calls[s].pc = "idle" /\ calls'[s].op = "signup")
            => /\ calls'[s].pc = "getStoredUsers"
               /\ calls'[s].name # <<>>
               /\ \A i \in 1..Len(calls'[s].name) :
                     i \in {1, Len(calls'[s].name)} => calls'[s].name[i] # " "

\* a signup that has failed has failed on a duplicate email or in the catch
\* block
SignupFailsLate ==
    \A s \in Slots :
        (calls[s].op = "signup" /\ Done(s) /\ ~Result(s).success)
            => Result(s) \in { Fail(DuplicateEmail),
                               Fail("An unexpected error occurred during signup") }

\* C35: every name, email and password that pass the Signup screen's
\* validateAllFields also pass the engine's signup pre-checks after the
\* screen trims name and email, so a signup submitted from the screen can
\* fail only with "User with this email already exists" or a storage error.
C35_ScreenImpliesEngine ==
    /\ [] SignupFailsLate
    /\ [][SignupStartsPastChecks]_vars

\* a signup submitted from the screen has failed on the email of an account
\* whose name was typed with blanks around it
C35_Witness ==
    \E s \in Slots :
        /\ calls[s].op = "signup" /\ Done(s)
        /\ Result(s) = Fail(DuplicateEmail)
        /\ calls[s].faults = {}
        /\ Len(Accounts) = 1
        /\ Accounts[1].name = <<"J", "o", "e">>
        /\ Len(Accounts[1].password) = 7

\* C36: on the Signup screen, after any sequence of change and blur events
\* on the password and confirmPassword fields, a recorded confirmPassword
\* error "Passwords do not match" implies that confirmPassword currently
\* differs from password.
C36_MismatchMeansDifferent ==
    (form.screen = "Signup"
        /\ form.errors["confirmPassword"] = Some(PasswordsDoNotMatch))
    => form.values["confirmPassword"] # form.values["password"]

====
